---- MODULE Spec2Model ----
(***************************************************************************)
(* Word expansion of the ion shell (src/lib/parser/shell_expand/mod.rs).   *)
(*                                                                         *)
(* Text is a sequence of one-character strings; an Option is a sequence    *)
(* of zero or one element (<<>> is None, <<x>> is Some(x)).                *)
(***************************************************************************)
EXTENDS Integers, Sequences, FiniteSets, TLC

VARIABLES
    \* ---- expand_process (lines 38-86) ----
    command,             \* Option<text>: what expander.command(command) returns
    quoted,              \* the quoted argument
    selection,           \* the selection argument
    debug_assertions,    \* build profile: overflow checks on (debug) or off (release)
    current,             \* the buffer expand_process appends to
    bytes,               \* output.as_bytes_mut()
    size, i, prev_is_whitespace,
    ppc,                 \* position inside expand_process
    \* ---- expand_string / expand_string_no_glob / expand_tokens ----
    entry,               \* the entry point called
    original,            \* the text to expand
    reverse_quoting,
    word_iterator,       \* the words WordIterator has yet to yield
    token_buffer, contains_brace,
    idx,                 \* how many items the running loop has consumed
    output, expanded_words,
    tokens, expanders,   \* the brace layout and its candidate lists
    result,              \* the array returned (the glob pass's accumulator)
    pc,                  \* position inside the expansion
    \* ---- expand_arithmetic (lines 695-729) ----
    input,               \* the expression text
    scanned,             \* how many of input.bytes() the loop has consumed
    varbuf, intermediate,
    lookups,             \* the calls of expander.string so far, as <<name, quoted>>
    apc                  \* position inside expand_arithmetic

pvars == <<command, quoted, selection, current, bytes, size, i,
           prev_is_whitespace, ppc>>

evars == <<entry, original, reverse_quoting, word_iterator, token_buffer,
           contains_brace, idx, output, expanded_words, tokens, expanders, result, pc>>

avars == <<input, scanned, varbuf, intermediate, lookups, apc>>

vars == <<pvars, debug_assertions, evars, avars>>

\* ------------------------------------------------------------------ bounds
MaxLen == 4          \* longest raw command output
MaxIdx == 2          \* largest index of a selector
MaxTokens == 2       \* longest combination of the core tokens
MaxArith == 3        \* longest combination of the expression characters

\* ----------------------------------------------------------------- helpers
Min(a, b) == IF a < b THEN a ELSE b

None == <<>>
Some(x) == <<x>>

RECURSIVE SeqsUpTo(_, _)
SeqsUpTo(S, n) ==
    IF n = 0 THEN {<<>>}
    ELSE LET shorter == SeqsUpTo(S, n - 1)
         IN  shorter \cup {Append(s, c) : s \in shorter, c \in S}

\* Iterator::skip / Iterator::take / Iterator::rev / Iterator::nth
Skip(s, n) == SubSeq(s, Min(n, Len(s)) + 1, Len(s))
Take(s, n) == SubSeq(s, 1, Min(n, Len(s)))
Rev(s) == [k \in 1..Len(s) |-> s[Len(s) + 1 - k]]
Nth(s, n) == IF n < Len(s) THEN Some(s[n + 1]) ELSE None

RECURSIVE Concat(_)
Concat(ss) == IF ss = <<>> THEN <<>> ELSE Head(ss) \o Concat(Tail(ss))

\* [T]::join(sep)
RECURSIVE Join(_, _)
Join(ss, sep) ==
    IF ss = <<>> THEN <<>>
    ELSE IF Len(ss) = 1 THEN ss[1]
    ELSE ss[1] \o sep \o Join(Tail(ss), sep)

\* ------------------------------------------------------------- selectors
Forward(n) == [dir |-> "Forward", n |-> n]
Backward(n) == [dir |-> "Backward", n |-> n]
NoRange == [start |-> Forward(0), end |-> Forward(0), inclusive |-> FALSE]
MkRange(s, e, incl) == [start |-> s, end |-> e, inclusive |-> incl]

SelNone == [kind |-> "None", index |-> Forward(0), range |-> NoRange, key |-> <<>>]
SelAll == [kind |-> "All", index |-> Forward(0), range |-> NoRange, key |-> <<>>]
SelIndex(ix) == [kind |-> "Index", index |-> ix, range |-> NoRange, key |-> <<>>]
SelRange(r) == [kind |-> "Range", index |-> Forward(0), range |-> r, key |-> <<>>]
SelKey(k) == [kind |-> "Key", index |-> Forward(0), range |-> NoRange, key |-> k]

Indexes == {Forward(n) : n \in 0..MaxIdx} \cup {Backward(n) : n \in 0..MaxIdx}
Ranges == {MkRange(s, e, incl) : s \in Indexes, e \in Indexes, incl \in BOOLEAN}

\* Index::resolve: a backward index counts 0 as the last position.
IndexResolve(ix, len) ==
    IF ix.dir = "Forward" THEN Some(ix.n)
    ELSE IF ix.n >= len THEN None ELSE Some(len - (ix.n + 1))

\* Range::bounds(len) -> Option<(start, length)>; out of bounds is absence.
RangeResolved(s, e, inclusive, len) ==
    IF s = None \/ e = None THEN None
    ELSE IF e[1] < s[1] THEN None
    ELSE LET length == IF inclusive THEN e[1] - s[1] + 1 ELSE e[1] - s[1]
         IN  IF s[1] + length > len THEN None ELSE Some(<<s[1], length>>)

RangeBounds(r, len) ==
    RangeResolved(IndexResolve(r.start, len), IndexResolve(r.end, len), r.inclusive, len)

\* lines 179-187: the Range arm of slice on the resolved bounds
SliceRange(out, expanded, b) ==
    IF b # None THEN out \o Take(Skip(expanded, b[1][1]), b[1][2]) ELSE out

\* slice(output, expanded, selection): the new value of output
slice(out, expanded, sel) ==
    CASE sel.kind = "None" -> out
      [] sel.kind = "All" -> out \o expanded
      [] sel.kind = "Index" /\ sel.index.dir = "Forward" ->
            out \o Nth(expanded, sel.index.n)
      [] sel.kind = "Index" /\ sel.index.dir = "Backward" ->
            out \o Nth(Rev(expanded), sel.index.n)
      [] sel.kind = "Range" ->
            SliceRange(out, expanded, RangeBounds(sel.range, Len(expanded)))
      [] sel.kind = "Key" -> out

\* ---------------------------------------------------------- expand_process
IsWhitespace(c) == c \in {" ", "\t", "\n"}

\* usize values near 2^64 are written as negative numbers (2^64 - k is -k), so
\* wrapping subtraction is plain subtraction and the order is the unsigned one.
ULess(a, b) == IF (a >= 0) = (b >= 0) THEN a < b ELSE a >= 0
Underflows(a, b) == a >= 0 /\ a - b < 0

\* output.rfind(|x| x != '\n'): the 0-based position of the last such char
RFindNotNewline(s) ==
    LET hits == {k \in 1..Len(s) : s[k] # "\n"}
    IN  IF hits = {} THEN None
        ELSE Some((CHOOSE k \in hits : \A j \in hits : j <= k) - 1)

\* lines 49-53: the text handed to slice for a quoted substitution
QuotedOutput(out) ==
    LET pos == RFindNotNewline(out)
    IN  IF pos # None THEN SubSeq(out, 1, pos[1] + 1) ELSE out

\* ptr::copy(bytes_v.offset(i + 1), bytes_v.offset(i), count): memmove
PtrCopy(b, at, count) ==
    [k \in 1..Len(b) |->
        IF k - 1 >= at /\ k - 1 < at + count THEN b[k + 1] ELSE b[k]]

\* One evaluation of the loop condition and body (lines 63-78), or of the code
\* after the loop (lines 79-82), on a record of the local variables.
LoopStep(st) ==
    IF ~ULess(st.i, st.size) THEN [st EXCEPT !.pc = "tail"]
    ELSE IF st.i >= Len(st.bytes) THEN [st EXCEPT !.pc = "panic"]
    ELSE
      LET is_whitespace == IsWhitespace(st.bytes[st.i + 1])
          b1 == IF is_whitespace THEN [st.bytes EXCEPT ![st.i + 1] = " "] ELSE st.bytes
      IN  IF is_whitespace /\ st.prev_is_whitespace
          THEN LET size1 == st.size - 1
               IN  IF Underflows(size1, 1) /\ st.debug
                   THEN [st EXCEPT !.bytes = b1, !.size = size1, !.pc = "panic"]
                   ELSE IF st.i # size1 - 1
                        THEN [st EXCEPT !.bytes = PtrCopy(b1, st.i, size1 - st.i),
                                        !.size = size1]
                        ELSE [st EXCEPT !.bytes = b1, !.size = size1]
          ELSE [st EXCEPT !.bytes = b1, !.i = st.i + 1,
                          !.prev_is_whitespace = is_whitespace]

TailStep(st) ==
    IF st.prev_is_whitespace
    THEN IF Underflows(st.size, 1) /\ st.debug
         THEN [st EXCEPT !.pc = "panic"]
         ELSE [st EXCEPT !.size = st.size - 1, !.pc = "slice"]
    ELSE [st EXCEPT !.pc = "slice"]

\* &bytes[..size] panics when size is past the end of the buffer
SliceOk(st) == st.size >= 0 /\ st.size <= Len(st.bytes)

RECURSIVE RunLoop(_)
RunLoop(st) ==
    CASE st.pc = "loop" -> RunLoop(LoopStep(st))
      [] st.pc = "tail" -> RunLoop(TailStep(st))
      [] st.pc = "slice" -> IF SliceOk(st) THEN st ELSE [st EXCEPT !.pc = "panic"]
      [] OTHER -> st

LoopStart(out, dbg) ==
    [bytes |-> out, size |-> Len(out), i |-> 0, prev_is_whitespace |-> TRUE,
     debug |-> dbg, pc |-> "loop"]

\* lines 79-82 on the locals the loop ended with
Compacted(cur, sel, st) ==
    IF st.pc = "panic" THEN [panic |-> TRUE, current |-> cur]
    ELSE [panic |-> FALSE, current |-> slice(cur, SubSeq(st.bytes, 1, st.size), sel)]

\* expand_process as a function: [panic, current]
ExpandProcess(cur, cmd, sel, q, dbg) ==
    IF cmd = None THEN [panic |-> FALSE, current |-> cur]
    ELSE IF cmd[1] = <<>> THEN [panic |-> FALSE, current |-> cur]
    ELSE IF q THEN [panic |-> FALSE, current |-> slice(cur, QuotedOutput(cmd[1]), sel)]
    ELSE Compacted(cur, sel, RunLoop(LoopStart(cmd[1], dbg)))

\* ---- expand_process, one step at a time
Chars == {"a", "b", " ", "\t", "\n"}
RawOutputs == SeqsUpTo(Chars, MaxLen)
ProcessSelections == {SelAll, SelNone, SelIndex(Forward(1)), SelIndex(Backward(0)),
                      SelRange(MkRange(Forward(0), Backward(0), FALSE)), SelKey(<<"a">>)}

Locals == [bytes |-> bytes, size |-> size, i |-> i,
           prev_is_whitespace |-> prev_is_whitespace,
           debug |-> debug_assertions, pc |-> ppc]

SetLocals(st) ==
    /\ bytes' = st.bytes
    /\ size' = st.size
    /\ i' = st.i
    /\ prev_is_whitespace' = st.prev_is_whitespace
    /\ ppc' = st.pc

\* no expand_arithmetic call is being traced
ArithIdle ==
    /\ input = <<>>
    /\ scanned = 0
    /\ varbuf = <<>>
    /\ intermediate = <<>>
    /\ lookups = <<>>
    /\ apc = "idle"

\* no expansion is running
ExpansionIdle ==
    /\ entry = "none"
    /\ original = [empty |-> TRUE, toks |-> <<>>]
    /\ reverse_quoting = FALSE
    /\ word_iterator = <<>>
    /\ token_buffer = <<>>
    /\ contains_brace = FALSE
    /\ idx = 0
    /\ output = <<>>
    /\ expanded_words = <<>>
    /\ tokens = <<>>
    /\ expanders = <<>>
    /\ result = <<>>
    /\ pc = "idle"

InitProcess ==
    /\ command \in {None} \cup {Some(o) : o \in RawOutputs}
    /\ quoted \in BOOLEAN
    /\ selection \in ProcessSelections
    /\ debug_assertions \in BOOLEAN
    /\ current = <<>>
    /\ bytes = <<>>
    /\ size = 0
    /\ i = 0
    /\ prev_is_whitespace = TRUE
    /\ ppc = "call"
    /\ ExpansionIdle
    /\ ArithIdle

\* line 45: no output at all
CommandAbsent ==
    /\ ppc = "call" /\ command = None
    /\ ppc' = "done"
    /\ UNCHANGED <<command, quoted, selection, debug_assertions, current, bytes, size, i,
                   prev_is_whitespace, evars, avars>>

\* lines 46-47: empty output
CommandEmpty ==
    /\ ppc = "call" /\ command # None /\ command[1] = <<>>
    /\ ppc' = "done"
    /\ UNCHANGED <<command, quoted, selection, debug_assertions, current, bytes, size, i,
                   prev_is_whitespace, evars, avars>>

\* lines 48-54
ProcessQuoted ==
    /\ ppc = "call" /\ command # None /\ command[1] # <<>> /\ quoted
    /\ current' = slice(current, QuotedOutput(command[1]), selection)
    /\ ppc' = "done"
    /\ UNCHANGED <<command, quoted, selection, debug_assertions, bytes, size, i,
                   prev_is_whitespace, evars, avars>>

\* lines 58-62
ProcessUnquoted ==
    /\ ppc = "call" /\ command # None /\ command[1] # <<>> /\ ~quoted
    /\ SetLocals(LoopStart(command[1], debug_assertions))
    /\ UNCHANGED <<command, quoted, selection, debug_assertions, current, evars, avars>>

\* lines 63-78
LoopIteration ==
    /\ ppc = "loop"
    /\ SetLocals(LoopStep(Locals))
    /\ UNCHANGED <<command, quoted, selection, debug_assertions, current, evars, avars>>

\* lines 79-81
AfterLoop ==
    /\ ppc = "tail"
    /\ SetLocals(TailStep(Locals))
    /\ UNCHANGED <<command, quoted, selection, debug_assertions, current, evars, avars>>

\* line 82
SliceCompacted ==
    /\ ppc = "slice"
    /\ IF SliceOk(Locals)
       THEN /\ current' = slice(current, SubSeq(bytes, 1, size), selection)
            /\ ppc' = "done"
       ELSE /\ current' = current
            /\ ppc' = "panic"
    /\ UNCHANGED <<command, quoted, selection, debug_assertions, bytes, size, i,
                   prev_is_whitespace, evars, avars>>

NextProcess ==
    \/ CommandAbsent
    \/ CommandEmpty
    \/ ProcessQuoted
    \/ ProcessUnquoted
    \/ LoopIteration
    \/ AfterLoop
    \/ SliceCompacted

SpecProcess == InitProcess /\ [][NextProcess]_vars

\* ---- reference normalisations, written independently of the code
\* the non-empty maximal runs of non-whitespace characters, in order
RECURSIVE Fields(_, _)
Fields(s, word) ==
    IF s = <<>> THEN (IF word = <<>> THEN <<>> ELSE <<word>>)
    ELSE IF IsWhitespace(Head(s))
         THEN (IF word = <<>> THEN <<>> ELSE <<word>>) \o Fields(Tail(s), <<>>)
         ELSE Fields(Tail(s), Append(word, Head(s)))

Normalized(s) == Join(Fields(s, <<>>), <<" ">>)

RECURSIVE StripTrailingNewlines(_)
StripTrailingNewlines(s) ==
    IF s # <<>> /\ s[Len(s)] = "\n"
    THEN StripTrailingNewlines(SubSeq(s, 1, Len(s) - 1))
    ELSE s

\* ================================================================ tokens
\* WordToken (words.rs): one record shape for every variant.
\*   text  : literal text, whitespace, variable / array name, command, expression
\*   flag  : the glob flag of Normal; contains_quote / quoted of the others
\*   nodes : the element texts of Array, the alternatives of Brace
\* A source text is [empty, toks]: whether the text is "", and the tokens
\* WordIterator yields for it.
Tok(kind, text, flag, tilde, sel, nodes) ==
    [kind |-> kind, text |-> text, flag |-> flag, tilde |-> tilde, sel |-> sel,
     nodes |-> nodes]

Normal(text, glob, tilde) == Tok("Normal", text, glob, tilde, SelNone, <<>>)
Whitespace(text) == Tok("Whitespace", text, FALSE, FALSE, SelNone, <<>>)
Variable(name, q, sel) == Tok("Variable", name, q, FALSE, sel, <<>>)
Array(elements, sel) == Tok("Array", <<>>, FALSE, FALSE, sel, elements)
ArrayVariable(name, q, sel) == Tok("ArrayVariable", name, q, FALSE, sel, <<>>)
ArrayProcess(cmd, q, sel) == Tok("ArrayProcess", cmd, q, FALSE, sel, <<>>)
Process(cmd, q, sel) == Tok("Process", cmd, q, FALSE, sel, <<>>)
StringMethod(res) == Tok("StringMethod", res, FALSE, FALSE, SelNone, <<>>)
ArrayMethod(res) == Tok("ArrayMethod", res, FALSE, FALSE, SelNone, <<>>)
Brace(nodes) == Tok("Brace", <<>>, FALSE, FALSE, SelNone, nodes)
Arithmetic(expr) == Tok("Arithmetic", expr, FALSE, FALSE, SelNone, <<>>)

Text(toks) == [empty |-> FALSE, toks |-> toks]
EmptyText == [empty |-> TRUE, toks |-> <<>>]

\* WordIterator::new(original, expand_func, do_glob), collected: a Normal token
\* carries the glob flag only when the iterator was built with do_glob.
Tokenize(text0, do_glob) ==
    [k \in 1..Len(text0.toks) |->
        LET t == text0.toks[k]
        IN  IF t.kind = "Normal" THEN [t EXCEPT !.flag = t.flag /\ do_glob] ELSE t]

\* str::split(' ')
RECURSIVE SplitSpace(_, _)
SplitSpace(s, piece) ==
    IF s = <<>> THEN <<piece>>
    ELSE IF Head(s) = " " THEN <<piece>> \o SplitSpace(Tail(s), <<>>)
    ELSE SplitSpace(Tail(s), Append(piece, Head(s)))

\* str::split_whitespace
RECURSIVE SplitWhitespace(_, _)
SplitWhitespace(s, piece) ==
    IF s = <<>> THEN (IF piece = <<>> THEN <<>> ELSE <<piece>>)
    ELSE IF IsWhitespace(Head(s))
         THEN (IF piece = <<>> THEN <<>> ELSE <<piece>>) \o SplitWhitespace(Tail(s), <<>>)
         ELSE SplitWhitespace(Tail(s), Append(piece, Head(s)))

Contains(s, c) == \E k \in 1..Len(s) : s[k] = c

\* ========================================================== collaborators
Digits == <<"0", "1", "2", "3", "4", "5", "6", "7", "8", "9">>
IsDigit(c) == \E d \in 1..10 : Digits[d] = c
DigitValue(c) == (CHOOSE d \in 1..10 : Digits[d] = c) - 1

RECURSIVE NatToText(_)
NatToText(n) ==
    IF n < 10 THEN <<Digits[n + 1]>> ELSE Append(NatToText(n \div 10), Digits[(n % 10) + 1])
IntToText(n) == IF n < 0 THEN <<"-">> \o NatToText(0 - n) ELSE NatToText(n)

RECURSIVE TextToNat(_)
TextToNat(s) ==
    IF s = <<>> THEN 0 ELSE TextToNat(SubSeq(s, 1, Len(s) - 1)) * 10 + DigitValue(s[Len(s)])

\* <Select as FromStr>::from_str (words.rs): a number is an index, other text a key.
ParseSelect(key) ==
    IF key # <<>> /\ \A k \in 1..Len(key) : IsDigit(key[k])
    THEN Some(SelIndex(Forward(TextToNat(key))))
    ELSE IF key = <<>> THEN None
    ELSE Some(SelKey(key))

\* ---- the Expander the shell provides (trait at lines 27-36)
NewlinesToSpaces(s) == [k \in 1..Len(s) |-> IF s[k] = "\n" THEN " " ELSE s[k]]

\* string variables: A = "1" and D = "1 2 3" as in the tests' VariableExpander
\* (lines 739-750); B holds a name; L holds a line break.
StringValue(name) ==
    CASE name = <<"A">> -> Some(<<"1">>)
      [] name = <<"B">> -> Some(<<"A">>)
      [] name = <<"D">> -> Some(<<"1", " ", "2", " ", "3">>)
      [] name = <<"L">> -> Some(<<"1", "\n", "2">>)
      [] OTHER -> None

\* Expander::string(name, quoted): an unquoted lookup has its line breaks
\* replaced by spaces.
ExpString(name, q) ==
    LET v == StringValue(name)
    IN  IF v = None THEN None
        ELSE IF q THEN v ELSE Some(NewlinesToSpaces(v[1]))

ArrayValue(name) ==
    CASE name = <<"X">> -> Some(<< <<"x">>, <<"y">> >>)
      [] name = <<"E">> -> Some(<<>>)
      [] OTHER -> None

\* the hash map M: key k holds v, key j holds w
MapValue(name, key) ==
    CASE name = <<"M">> /\ key = <<"k">> -> Some(<< <<"v">> >>)
      [] name = <<"M">> /\ key = <<"j">> -> Some(<< <<"w">> >>)
      [] name = <<"M">> -> Some(<<>>)
      [] OTHER -> None

\* the elements an array variable gives for a selection; an index or a range
\* outside the array gives nothing
OptionOf(e) == IF e = None THEN None ELSE Some(e)
RangeOf(elements, b) ==
    IF b = None THEN None ELSE Some(Take(Skip(elements, b[1][1]), b[1][2]))
SelectValue(a, sel) ==
    IF a = None THEN None
    ELSE CASE sel.kind = "None" -> None
           [] sel.kind = "All" -> a
           [] sel.kind = "Index" /\ sel.index.dir = "Forward" ->
                 OptionOf(Nth(a[1], sel.index.n))
           [] sel.kind = "Index" /\ sel.index.dir = "Backward" ->
                 OptionOf(Nth(Rev(a[1]), sel.index.n))
           [] sel.kind = "Range" -> RangeOf(a[1], RangeBounds(sel.range, Len(a[1])))

\* Expander::array(name, selection)
ExpArray(name, sel) ==
    IF sel.kind = "Key" THEN MapValue(name, sel.key)
    ELSE SelectValue(ArrayValue(name), sel)

\* Expander::tilde(text)
ExpTilde(text) ==
    IF text # <<>> /\ text[1] = "~" THEN Some(<<"/", "h">> \o Tail(text)) ELSE None

\* Expander::command(cmd): the tests' CommandExpander (line 756) echoes the
\* command text; the command "!" produces no output object at all.
ExpCommand(cmd) == IF cmd = <<"!">> THEN None ELSE Some(cmd)

\* ---- glob::glob
\* the entries a directory walk meets, in enumeration order; an entry that
\* cannot be read is reported as an error item
DirEntries ==
    << [ok |-> TRUE, path |-> <<"a", "c">>],
       [ok |-> FALSE, path |-> <<"u", "x">>],
       [ok |-> TRUE, path |-> <<"a", "b">>] >>

RECURSIVE GlobMatch(_, _)
GlobMatch(pat, name) ==
    IF pat = <<>> THEN name = <<>>
    ELSE IF Head(pat) = "*"
         THEN GlobMatch(Tail(pat), name) \/ (name # <<>> /\ GlobMatch(pat, Tail(name)))
         ELSE name # <<>> /\ (Head(pat) = "?" \/ Head(pat) = Head(name))
                /\ GlobMatch(Tail(pat), Tail(name))

\* Pattern::new rejects three stars in a row
PatternError(pat) ==
    \E k \in 1..(Len(pat) - 2) : pat[k] = "*" /\ pat[k + 1] = "*" /\ pat[k + 2] = "*"

\* glob(pattern) -> Result<Paths, PatternError>; Paths yields Result<PathBuf, GlobError>
Glob(pat) ==
    IF PatternError(pat) THEN [ok |-> FALSE, paths |-> <<>>]
    ELSE [ok |-> TRUE,
          paths |-> SelectSeq(DirEntries, LAMBDA e : GlobMatch(pat, e.path))]

\* ---- calc::eval: whole-number arithmetic over + - * / and parentheses
\* A parse result is [ok, val, pos, err]; pos is the next unread position (1-based).
RECURSIVE SkipBlanks(_, _)
SkipBlanks(s, p) == IF p <= Len(s) /\ IsWhitespace(s[p]) THEN SkipBlanks(s, p + 1) ELSE p

RECURSIVE NumberEnd(_, _)
NumberEnd(s, p) == IF p <= Len(s) /\ IsDigit(s[p]) THEN NumberEnd(s, p + 1) ELSE p

Parsed(v, p) == [ok |-> TRUE, val |-> v, pos |-> p, err |-> "none"]
Failed(e) == [ok |-> FALSE, val |-> 0, pos |-> 0, err |-> e]

RECURSIVE ParseExpr(_, _), ExprRest(_, _), ParseTerm(_, _), TermRest(_, _), ParseFactor(_, _)

Number(s, p, e) == Parsed(TextToNat(SubSeq(s, p, e - 1)), e)
Negated(f) == IF f.ok THEN Parsed(0 - f.val, f.pos) ELSE f
ClosedAt(s, e, q) ==
    IF q <= Len(s) /\ s[q] = ")" THEN Parsed(e.val, q + 1) ELSE Failed("syntax")
Closed(s, e) == IF ~e.ok THEN e ELSE ClosedAt(s, e, SkipBlanks(s, e.pos))

FactorAt(s, p) ==
    IF p > Len(s) THEN Failed("syntax")
    ELSE IF IsDigit(s[p]) THEN Number(s, p, NumberEnd(s, p))
    ELSE IF s[p] = "-" THEN Negated(ParseFactor(s, p + 1))
    ELSE IF s[p] = "(" THEN Closed(s, ParseExpr(s, p + 1))
    ELSE Failed("syntax")

ParseFactor(s, p0) == FactorAt(s, SkipBlanks(s, p0))

TermApply(s, acc, op, f) ==
    IF ~f.ok THEN f
    ELSE IF op = "/" /\ f.val = 0 THEN Failed("div0")
    ELSE TermRest(s, Parsed(IF op = "*" THEN acc.val * f.val ELSE acc.val \div f.val,
                            f.pos))

TermRestAt(s, acc, p) ==
    IF p <= Len(s) /\ s[p] \in {"*", "/"}
    THEN TermApply(s, acc, s[p], ParseFactor(s, p + 1))
    ELSE [acc EXCEPT !.pos = p]

TermRest(s, acc) == TermRestAt(s, acc, SkipBlanks(s, acc.pos))

TermFrom(s, f) == IF f.ok THEN TermRest(s, f) ELSE f
ParseTerm(s, p) == TermFrom(s, ParseFactor(s, p))

ExprApply(s, acc, op, t) ==
    IF ~t.ok THEN t
    ELSE ExprRest(s, Parsed(IF op = "+" THEN acc.val + t.val ELSE acc.val - t.val, t.pos))

ExprRestAt(s, acc, p) ==
    IF p <= Len(s) /\ s[p] \in {"+", "-"}
    THEN ExprApply(s, acc, s[p], ParseTerm(s, p + 1))
    ELSE [acc EXCEPT !.pos = p]

ExprRest(s, acc) == ExprRestAt(s, acc, SkipBlanks(s, acc.pos))

ExprFrom(s, t) == IF t.ok THEN ExprRest(s, t) ELSE t
ParseExpr(s, p) == ExprFrom(s, ParseTerm(s, p))

\* the message of a calc error, as text
CalcErrorText(e) ==
    IF e = "div0" THEN <<"d", "i", "v", "0">> ELSE <<"e", "r", "r">>

\* calc::eval(expr) -> Result<Value, CalcError>: [ok, text]
Evaluated(expr, r) ==
    IF ~r.ok THEN [ok |-> FALSE, text |-> CalcErrorText(r.err)]
    ELSE IF r.pos <= Len(expr) THEN [ok |-> FALSE, text |-> CalcErrorText("syntax")]
    ELSE [ok |-> TRUE, text |-> IntToText(r.val)]

CalcEval(expr) == Evaluated(expr, ParseExpr(expr, 1))

\* ======================================================= expand_arithmetic
UpperLetters == {"A", "B", "C", "D", "E", "F", "G", "H", "I", "J", "K", "L", "M",
                 "N", "O", "P", "Q", "R", "S", "T", "U", "V", "W", "X", "Y", "Z"}
LowerLetters == {"a", "b", "c", "d", "e", "f", "g", "h", "i", "j", "k", "l", "m",
                 "n", "o", "p", "q", "r", "s", "t", "u", "v", "w", "x", "y", "z"}

\* line 712: 48...57 | 65...90 | 95 | 97...122
IsIdentByte(c) == IsDigit(c) \/ c \in UpperLetters \/ c = "_" \/ c \in LowerLetters

\* input.bytes() with every byte taken `as char` (line 713, 718): a character
\* of the ASCII range is its own byte, e-acute (U+00E9) is the two bytes C3 A9,
\* which `as char` turns into the characters U+00C3 and U+00A9.
Utf8AsChars(c) == IF c = "U+00E9" THEN <<"U+00C3", "U+00A9">> ELSE <<c>>

RECURSIVE Bytes(_)
Bytes(text) == IF text = <<>> THEN <<>> ELSE Utf8AsChars(Head(text)) \o Bytes(Tail(text))

\* The scan's local state is [varbuf, intermediate, lookups]; lookups records
\* every call of expander.string as <<name, quoted>>.
ScanStart == [varbuf |-> <<>>, intermediate |-> <<>>, lookups |-> <<>>]

\* the flush closure (lines 698-709)
Substituted(st, res) ==
    [varbuf |-> <<>>,
     intermediate |-> st.intermediate \o (IF res # None THEN res[1] ELSE st.varbuf),
     lookups |-> Append(st.lookups, <<st.varbuf, FALSE>>)]

Flush(st) ==
    IF st.varbuf # <<>> THEN Substituted(st, ExpString(st.varbuf, FALSE)) ELSE st

\* the body of the loop over input.bytes() (lines 711-719)
ScanByte(st, c) ==
    IF IsIdentByte(c) THEN [st EXCEPT !.varbuf = Append(st.varbuf, c)]
    ELSE [Flush(st) EXCEPT !.intermediate = Append(@, c)]

RECURSIVE ScanBytes(_, _)
ScanBytes(st, bs) ==
    IF bs = <<>> THEN st ELSE ScanBytes(ScanByte(st, Head(bs)), Tail(bs))

\* (variant: an evaluation error appends nothing)
EvalAppendValue(out, substituted) ==
    IF CalcEval(substituted).ok THEN out \o CalcEval(substituted).text ELSE out

\* lines 722-728: the text appended for the substituted expression
EvalAppend(out, substituted) == out \o CalcEval(substituted).text

\* expand_arithmetic(output, input, expander): the new value of output
ExpandArithmetic(out, expr) ==
    EvalAppend(out, Flush(ScanBytes(ScanStart, Bytes(expr))).intermediate)

\* ================================================================ expansion
\* An array result is [panic, arr]; the walk's locals are
\* [output, expanded_words, panic]. A panic inside expand_process unwinds
\* through every caller.
Ok(arr) == [panic |-> FALSE, arr |-> arr]
Panicked == [panic |-> TRUE, arr |-> <<>>]

WalkStart == [output |-> <<>>, expanded_words |-> <<>>, panic |-> FALSE]

\* parse_range (ranges.rs): the brace range d..e over single digits, end included
ParseRange(word) ==
    IF Len(word) = 4 /\ IsDigit(word[1]) /\ word[2] = "." /\ word[3] = "."
          /\ IsDigit(word[4])
    THEN LET a == DigitValue(word[1])
             b == DigitValue(word[4])
         IN  Some(IF a <= b
                  THEN [k \in 1..(b - a + 1) |-> NatToText(a + k - 1)]
                  ELSE [k \in 1..(a - b + 1) |-> NatToText(a - k + 1)])
    ELSE None

\* braces::expand(tokens, expanders) (braces.rs): one string per combination,
\* the leftmost placeholder varying slowest
BNormal(text) == [kind |-> "Normal", text |-> text]
BExpander == [kind |-> "Expander", text |-> <<>>]

RECURSIVE BracesExpand(_, _)
BracesExpand(layout, lists) ==
    IF layout = <<>> THEN << <<>> >>
    ELSE IF Head(layout).kind = "Normal"
         THEN LET rest == BracesExpand(Tail(layout), lists)
              IN  [k \in 1..Len(rest) |-> Head(layout).text \o rest[k]]
         ELSE LET rest == BracesExpand(Tail(layout), Tail(lists))
                  cands == Head(lists)
                  n == Len(rest)
              IN  [k \in 1..(Len(cands) * n) |->
                      cands[((k - 1) \div n) + 1] \o rest[((k - 1) % n) + 1]]

\* WordMethod::handle / ArrayMethod::handle_as_array (words.rs): the token holds
\* the text the method evaluates to
MethodHandle(out, tok) == out \o tok.text
MethodHandleAsArray(tok) == SplitWhitespace(tok.text, <<>>)

\* lines 553-557: the text after the tilde substitution
TildeText(text, t) == IF t # None THEN t[1] ELSE text

\* lines 559-575: the glob arm on the result of glob(&expanded)
Globbed(st, expanded, g) ==
    LET found == SelectSeq(g.paths, LAMBDA e : e.ok)
    IN  IF g.ok /\ found # <<>>
        THEN [st EXCEPT !.expanded_words = @ \o [k \in 1..Len(found) |-> found[k].path]]
        ELSE [st EXCEPT !.expanded_words = Append(@, expanded)]

\* lines 559-578
ExpandedTo(st, expanded, do_glob) ==
    IF do_glob THEN Globbed(st, expanded, Glob(expanded))
    ELSE [st EXCEPT !.output = @ \o expanded]

\* expand (lines 545-579)
Expand(st, text, do_glob, tilde) ==
    ExpandedTo(st, IF tilde THEN TildeText(text, ExpTilde(text)) ELSE text, do_glob)

\* the ArrayProcess arms (lines 611-643, 301-333): the words of the command's
\* output, taken from a temporary string that expand_process filled
WordsOf(r) == IF r.panic THEN Panicked ELSE Ok(SplitWhitespace(r.current, <<>>))

ProcessWords(cmd) ==
    WordsOf(ExpandProcess(<<>>, ExpCommand(cmd), SelAll, FALSE, debug_assertions))

RangeWords(words, b) == IF b # None THEN Take(Skip(words, b[1][1]), b[1][2]) ELSE <<>>

SelectWords(words, sel) ==
    CASE sel.kind = "All" -> words
      [] sel.kind = "Index" /\ sel.index.dir = "Forward" -> Nth(words, sel.index.n)
      [] sel.kind = "Index" /\ sel.index.dir = "Backward" -> Nth(Rev(words), sel.index.n)
      [] sel.kind = "Range" -> RangeWords(words, RangeBounds(sel.range, Len(words)))
      [] OTHER -> <<>>

Selected(w, sel) == IF w.panic THEN Panicked ELSE Ok(SelectWords(w.arr, sel))

ArrayProcessWords(tok) ==
    IF tok.sel.kind \in {"None", "Key"} THEN Ok(<<>>)
    ELSE Selected(ProcessWords(tok.text), tok.sel)

\* lines 396-414 on the result of glob(&word): the elements pushed
GlobEntries(word, g) ==
    IF g.ok
    THEN IF g.paths = <<>> THEN <<word>>
         ELSE [k \in 1..Len(g.paths) |-> IF g.paths[k].ok THEN g.paths[k].path ELSE <<>>]
    ELSE <<word>>

\* the glob pass over one generated word (lines 393-418)
GlobWord(word) ==
    IF Contains(word, "*") THEN GlobEntries(word, Glob(word)) ELSE <<word>>

RECURSIVE GlobWords(_)
GlobWords(words) ==
    IF words = <<>> THEN <<>> ELSE GlobWord(Head(words)) \o GlobWords(Tail(words))

\* lines 219-233: the token pushed for one key
KeyToken(word, select) ==
    ArrayVariable(word.text, word.flag, IF select # None THEN select[1] ELSE SelNone)

\* (variant: the whitespace token after the last key stays)
PushWordNoPop(buffer, word) ==
    IF word.kind = "ArrayVariable" /\ word.sel.kind = "Key" /\ Contains(word.sel.key, " ")
    THEN LET keys == SplitSpace(word.sel.key, <<>>)
         IN  buffer \o [k \in 1..(2 * Len(keys)) |->
                           IF k % 2 = 1
                           THEN KeyToken(word, ParseSelect(keys[(k + 1) \div 2]))
                           ELSE Whitespace(<<" ">>)]
    ELSE Append(buffer, word)

\* expand_string's loop body for one word (lines 208-242): the new token_buffer
PushWord(buffer, word) ==
    IF word.kind = "ArrayVariable" /\ word.sel.kind = "Key" /\ Contains(word.sel.key, " ")
    THEN LET keys == SplitSpace(word.sel.key, <<>>)
             pushed == [k \in 1..(2 * Len(keys)) |->
                           IF k % 2 = 1
                           THEN KeyToken(word, ParseSelect(keys[(k + 1) \div 2]))
                           ELSE Whitespace(<<" ">>)]
         IN  buffer \o SubSeq(pushed, 1, Len(pushed) - 1)
    ELSE Append(buffer, word)

\* expand_string_no_glob's loop body (lines 265-269)
PushWordNoGlob(buffer, word) == Append(buffer, word)

\* lines 244-247 / 271-274: the token standing for the empty text
EmptyToken == Normal(<<>>, TRUE, FALSE)

RECURSIVE PushWords(_, _)
PushWords(buffer, words) ==
    IF words = <<>> THEN buffer
    ELSE PushWords(PushWord(buffer, Head(words)), Tail(words))

ContainsBrace(words) == \E k \in 1..Len(words) : words[k].kind = "Brace"

\* (variant: the buffer is pushed even when it is empty)
FinishWalkAlways(st) ==
    IF st.panic THEN Panicked ELSE Ok(Append(st.expanded_words, st.output))

\* the end of the fold and single-token walks (lines 681-684, 539-542)
FinishWalk(st) ==
    IF st.panic THEN Panicked
    ELSE IF st.output # <<>> THEN Ok(Append(st.expanded_words, st.output))
    ELSE Ok(st.expanded_words)

\* The expansions nest (an array element and a brace alternative are texts of
\* their own): expand_tokens is the one recursive definition, and the walks
\* receive the expansions of a token's nested texts as subs.
RECURSIVE ExpandTokens(_, _, _)

\* (variant: nothing is pushed for the empty text)
TokenBufferAsIs(text0, pushed) == pushed

\* lines 244-247 / 271-274: the empty text gets the empty token
TokenBuffer(text0, pushed) == IF text0.empty THEN Append(pushed, EmptyToken) ELSE pushed

\* The two entry points differ in the loop body and in the do_glob argument
\* of WordIterator::new (lines 203 / 261); both end in expand_tokens.
ExpandEntry(text0, rq, do_glob) ==
    ExpandTokens(TokenBuffer(text0, IF do_glob
                                    THEN PushWords(<<>>, Tokenize(text0, TRUE))
                                    ELSE Tokenize(text0, FALSE)),
                 rq, ContainsBrace(text0.toks))

\* expand_string (lines 196-252)
ExpandString(text0, rq) == ExpandEntry(text0, rq, TRUE)

\* expand_string_no_glob (lines 254-279)
ExpandStringNoGlob(text0, rq) == ExpandEntry(text0, rq, FALSE)

\* the expansion of each nested text of a token, in order:
\* expand_string(e, expand_func, false) for an array element (lines 129, 142, 152),
\* expand_string_no_glob(node, expand_func, reverse_quoting) for a brace
\* alternative (line 99)
Nested(tok, rq) ==
    [k \in 1..Len(tok.nodes) |->
        ExpandEntry(tok.nodes[k], IF tok.kind = "Array" THEN FALSE ELSE rq,
                    tok.kind = "Array")]

Prepend(arr, t) == IF t.panic THEN Panicked ELSE Ok(arr \o t.arr)

\* flat_map(..) consumed to its end: the first panic unwinds
RECURSIVE FlatExpand(_)
FlatExpand(subs) ==
    IF subs = <<>> THEN Ok(<<>>)
    ELSE IF Head(subs).panic THEN Panicked
    ELSE Prepend(Head(subs).arr, FlatExpand(Tail(subs)))

\* expanded.nth(n) on the lazy flat_map: elements past the hit are not expanded
RECURSIVE FlatNth(_, _)
FlatNth(subs, n) ==
    IF subs = <<>> THEN Ok(<<>>)
    ELSE IF Head(subs).panic THEN Panicked
    ELSE IF n < Len(Head(subs).arr) THEN Ok(<<Head(subs).arr[n + 1]>>)
    ELSE FlatNth(Tail(subs), n - Len(Head(subs).arr))

\* expanded.rev().nth(n): the same from the back
RECURSIVE FlatNthBack(_, _)
FlatNthBack(subs, n) ==
    IF subs = <<>> THEN Ok(<<>>)
    ELSE LET h == subs[Len(subs)]
         IN  IF h.panic THEN Panicked
             ELSE IF n < Len(h.arr) THEN Ok(<<h.arr[Len(h.arr) - n]>>)
             ELSE FlatNthBack(SubSeq(subs, 1, Len(subs) - 1), n - Len(h.arr))

\* (variant: a backward index is read as a forward one)
ArrayNthForward(subs, index) == FlatNth(subs, index.n)

\* array_nth (lines 139-147)
ArrayNth(subs, index) ==
    IF index.dir = "Forward" THEN FlatNth(subs, index.n) ELSE FlatNthBack(subs, index.n)

\* array_range (lines 149-160)
RangeOfExpanded(expanded, range) ==
    IF expanded.panic THEN Panicked
    ELSE Ok(RangeWords(expanded.arr, RangeBounds(range, Len(expanded.arr))))

ArrayRange(subs, range) == RangeOfExpanded(FlatExpand(subs), range)

\* array_expand (lines 120-137)
ArrayExpand(subs, sel) ==
    CASE sel.kind = "None" -> Ok(<<>>)
      [] sel.kind = "All" -> FlatExpand(subs)
      [] sel.kind = "Index" -> ArrayNth(subs, sel.index)
      [] sel.kind = "Range" -> ArrayRange(subs, sel.range)
      [] sel.kind = "Key" -> Ok(<<>>)

\* output.push_str(&array.join(" ")) (lines 604, 608, 617, 639)
JoinInto(st, a) ==
    IF a.panic THEN [st EXCEPT !.panic = TRUE]
    ELSE [st EXCEPT !.output = @ \o Join(a.arr, <<" ">>)]

\* lines 606-610: an array variable that is not set contributes nothing
JoinOption(st, a) ==
    IF a # None THEN [st EXCEPT !.output = @ \o Join(a[1], <<" ">>)] ELSE st

\* lines 664-667: output after expand_process
ProcessInto(st, r) == [st EXCEPT !.output = r.current, !.panic = r.panic]

\* lines 668-676
VariableInto(st, expanded, sel) ==
    IF expanded = None THEN st ELSE [st EXCEPT !.output = slice(@, expanded[1], sel)]

\* lines 665, 669: quoted, turned over under reverse_quoting
Quoting(tok, rq) == IF rq THEN ~tok.flag ELSE tok.flag

\* one iteration of the fold walk (lines 602-678)
TokenStep(st, tok, rq, subs) ==
    IF st.panic THEN st
    ELSE CASE tok.kind = "Array" -> JoinInto(st, ArrayExpand(subs, tok.sel))
           [] tok.kind = "ArrayVariable" -> JoinOption(st, ExpArray(tok.text, tok.sel))
           [] tok.kind = "ArrayProcess" -> JoinInto(st, ArrayProcessWords(tok))
           [] tok.kind \in {"ArrayMethod", "StringMethod"} ->
                [st EXCEPT !.output = MethodHandle(@, tok)]
           [] tok.kind = "Normal" -> Expand(st, tok.text, tok.flag, tok.tilde)
           [] tok.kind = "Whitespace" -> [st EXCEPT !.output = @ \o tok.text]
           [] tok.kind = "Process" ->
                ProcessInto(st, ExpandProcess(st.output, ExpCommand(tok.text), tok.sel,
                                              Quoting(tok, rq), debug_assertions))
           [] tok.kind = "Variable" ->
                VariableInto(st, ExpString(tok.text, Quoting(tok, rq)), tok.sel)
           [] tok.kind = "Arithmetic" ->
                [st EXCEPT !.output = ExpandArithmetic(@, tok.text)]
           [] tok.kind = "Brace" -> [st EXCEPT !.panic = TRUE]    \* unreachable!() (line 650)

\* the for loop of the fold path (line 601); nested[k] belongs to buffer[k]
RECURSIVE FoldWalk(_, _, _, _)
FoldWalk(st, buffer, rq, nested) ==
    IF buffer = <<>> THEN st
    ELSE FoldWalk(TokenStep(st, Head(buffer), rq, Head(nested)), Tail(buffer), rq,
                  Tail(nested))

\* lines 431-439: a quoted array variable is one joined element
VariableElements(a, q) ==
    IF a # None /\ q THEN <<Join(a[1], <<" ">>)>>
    ELSE IF a # None THEN a[1]
    ELSE <<>>

\* expand_single_array_token (lines 422-494): Option<[panic, arr]>
ExpandSingleArrayToken(tok, subs) ==
    CASE tok.kind = "Array" -> Some(ArrayExpand(subs, tok.sel))
      [] tok.kind = "ArrayVariable" ->
            Some(Ok(VariableElements(ExpArray(tok.text, tok.sel), tok.flag)))
      [] tok.kind = "ArrayProcess" -> Some(ArrayProcessWords(tok))
      [] tok.kind = "ArrayMethod" -> Some(Ok(MethodHandleAsArray(tok)))
      [] OTHER -> None

\* (variant: the buffer is pushed whatever it holds, set variable or not)
ExpandSingleStringTokenAlways(tok, rq) ==
    FinishWalkAlways(TokenStep(WalkStart, tok, rq, <<>>))

\* expand_single_string_token (lines 496-543)
ExpandSingleStringToken(tok, rq) ==
    IF tok.kind = "Variable" /\ ExpString(tok.text, Quoting(tok, rq)) = None
    THEN Ok(<<>>)
    ELSE FinishWalk(TokenStep(WalkStart, tok, rq, <<>>))

RangeMembers(word, r) == IF r # None THEN r[1] ELSE <<word>>

\* lines 101-106: a candidate that is a range gives its members
RECURSIVE RangesExpanded(_)
RangesExpanded(words) ==
    IF words = <<>> THEN <<>>
    ELSE RangeMembers(Head(words), ParseRange(Head(words)))
            \o RangesExpanded(Tail(words))

\* (variant: the rolling buffer is not flushed into the layout)
BraceLayoutNoFlush(bst, temp) ==
    IF temp # <<>>
    THEN [bst EXCEPT !.tokens = @ \o <<BExpander>>, !.expanders = Append(@, temp)]
    ELSE [bst EXCEPT !.output = @ \o <<"{", "}">>]

\* (variant: the candidates are stored without looking whether there are any)
BraceLayoutUnchecked(bst, temp) ==
    [bst EXCEPT
        !.tokens = (IF bst.output # <<>> THEN Append(@, BNormal(bst.output)) ELSE @)
                      \o <<BExpander>>,
        !.output = <<>>,
        !.expanders = Append(@, temp)]

\* (variant: a group without candidates leaves no trace)
BraceLayoutNoFallback(bst, temp) ==
    IF temp # <<>>
    THEN [bst EXCEPT
            !.tokens = (IF bst.output # <<>> THEN Append(@, BNormal(bst.output)) ELSE @)
                          \o <<BExpander>>,
            !.output = <<>>,
            !.expanders = Append(@, temp)]
    ELSE bst

\* lines 107-117: a placeholder for the candidates, or "{}" when there are none
BraceLayout(bst, temp) ==
    IF temp # <<>>
    THEN [bst EXCEPT
            !.tokens = (IF bst.output # <<>> THEN Append(@, BNormal(bst.output)) ELSE @)
                          \o <<BExpander>>,
            !.output = <<>>,
            !.expanders = Append(@, temp)]
    ELSE [bst EXCEPT !.output = @ \o <<"{", "}">>]

\* lines 96-106 on the flattened alternatives
BraceCandidates(bst, flat) ==
    IF flat.panic THEN [bst EXCEPT !.panic = TRUE]
    ELSE BraceLayout(bst, RangesExpanded(flat.arr))

\* expand_brace (lines 88-118) on the brace walk's locals
\* [output, expanded_words, tokens, expanders, panic]
ExpandBrace(bst, subs) == BraceCandidates(bst, FlatExpand(subs))

BraceStart ==
    [output |-> <<>>, expanded_words |-> <<>>, tokens |-> <<>>, expanders |-> <<>>,
     panic |-> FALSE]

WalkInto(bst, st) ==
    [bst EXCEPT !.output = st.output, !.expanded_words = st.expanded_words,
                !.panic = st.panic]

\* one iteration of the brace walk (lines 291-374): a Normal token is expanded
\* with do_glob = false (line 368), the other arms are those of the fold
BraceStep(bst, tok, rq, subs) ==
    IF bst.panic THEN bst
    ELSE IF tok.kind = "Brace" THEN ExpandBrace(bst, subs)
    ELSE WalkInto(bst, TokenStep([output |-> bst.output,
                                  expanded_words |-> bst.expanded_words,
                                  panic |-> FALSE],
                                 IF tok.kind = "Normal" THEN [tok EXCEPT !.flag = FALSE]
                                 ELSE tok,
                                 rq, subs))

RECURSIVE BraceWalk(_, _, _, _)
BraceWalk(bst, buffer, rq, nested) ==
    IF buffer = <<>> THEN bst
    ELSE BraceWalk(BraceStep(bst, Head(buffer), rq, Head(nested)), Tail(buffer), rq,
                   Tail(nested))

\* lines 375-389: the words handed to the glob pass
GeneratedWords(bst) ==
    IF bst.expanders = <<>> THEN Append(bst.expanded_words, bst.output)
    ELSE bst.expanded_words
            \o BracesExpand(IF bst.output # <<>>
                            THEN Append(bst.tokens, BNormal(bst.output))
                            ELSE bst.tokens,
                            bst.expanders)

\* expand_braces (lines 281-420)
Globbing(bst) == IF bst.panic THEN Panicked ELSE Ok(GlobWords(GeneratedWords(bst)))

ExpandBraces(buffer, rq, nested) == Globbing(BraceWalk(BraceStart, buffer, rq, nested))

\* expand_tokens (lines 581-688)
Dispatch(buffer, rq, has_brace, nested) ==
    IF buffer # <<>>
    THEN IF has_brace THEN ExpandBraces(buffer, rq, nested)
         ELSE IF Len(buffer) = 1
              THEN IF ExpandSingleArrayToken(buffer[1], nested[1]) # None
                   THEN ExpandSingleArrayToken(buffer[1], nested[1])[1]
                   ELSE ExpandSingleStringToken(buffer[1], rq)
         ELSE FinishWalk(FoldWalk(WalkStart, buffer, rq, nested))
    ELSE Ok(<<>>)

ExpandTokens(buffer, rq, has_brace) ==
    Dispatch(buffer, rq, has_brace, [k \in 1..Len(buffer) |-> Nested(buffer[k], rq)])

\* ========================================================= the state machine
\* ---- the texts expanded
Lit(t) == Text(<<Normal(t, FALSE, FALSE)>>)

CoreTokens ==
    { Normal(<<"a">>, FALSE, FALSE),
      Normal(<<"a", "*">>, TRUE, FALSE),           \* matches ac and ab
      Normal(<<"b", "*">>, TRUE, FALSE),           \* matches nothing
      Normal(<<"*", "*", "*">>, TRUE, FALSE),      \* no valid pattern
      Normal(<<"~", "*">>, TRUE, TRUE),
      Whitespace(<<" ">>),
      Variable(<<"D">>, FALSE, SelAll),
      Variable(<<"U">>, FALSE, SelAll),            \* not set
      Array(<<Lit(<<"1">>), Lit(<<"2">>)>>, SelAll),
      ArrayVariable(<<"X">>, FALSE, SelAll),
      ArrayVariable(<<"M">>, FALSE, SelKey(<<"k", " ", "j">>)),
      Process(<<"a", " ", " ", "\n">>, FALSE, SelAll),
      Process(<<" ", "a">>, FALSE, SelAll),
      ArrayProcess(<<"a", " ", "b">>, FALSE, SelIndex(Backward(0))),
      Brace(<<Lit(<<"a">>), Lit(<<"b", "*">>)>>),
      Brace(<<Text(<<Variable(<<"U">>, FALSE, SelAll)>>)>>),   \* no candidate
      Arithmetic(<<"1", "/", "0">>),
      Arithmetic(<<"A", "+", "1">>),
      StringMethod(<<"m">>) }

CoreTexts == {Text(w) : w \in SeqsUpTo(CoreTokens, MaxTokens)}

\* [e1 e2 ..][selector] for every selector
ElementLists ==
    { <<>>,
      <<Lit(<<"1">>), Lit(<<"2">>), Lit(<<"3">>)>>,
      <<Text(<<Array(<<Lit(<<"f">>), Lit(<<"g">>)>>, SelAll)>>),
        Text(<<Variable(<<"D">>, FALSE, SelAll)>>),
        Text(<<Variable(<<"U">>, FALSE, SelAll)>>),
        Text(<<Array(<<Lit(<<"h">>)>>, SelAll)>>)>>,
      <<Lit(<<"7">>), Lit(<<"8">>)>>,
      <<Lit(<<"1">>), Text(<<Process(<<" ", "a">>, FALSE, SelAll)>>)>> }

Selectors ==
    {SelNone, SelAll, SelKey(<<"k">>)} \cup {SelIndex(ix) : ix \in Indexes}
        \cup {SelRange(r) : r \in Ranges}

ArrayTexts == {Text(<<Array(els, sel)>>) : els \in ElementLists, sel \in Selectors}

\* the words of the tests (lines 775-890), and single tokens of each kind
TestTexts ==
    { EmptyText,
      Text(<<Variable(<<"A">>, FALSE, SelAll), Normal(<<":">>, FALSE, FALSE),
             Variable(<<"D">>, FALSE, SelAll)>>),
      Text(<<Normal(<<"p", "r", "o">>, FALSE, FALSE),
             Brace(<<Lit(<<"d">>), Lit(<<"g">>), Lit(<<"c">>)>>)>>),
      Text(<<Normal(<<"I", "t">>, FALSE, FALSE),
             Brace(<<Text(<<Brace(<<Lit(<<"e", "m">>), Lit(<<"a", "l", "i", "c">>)>>),
                            Normal(<<"i", "z">>, FALSE, FALSE)>>),
                     Lit(<<"e", "r", "a", "t">>)>>),
             Normal(<<"e">>, FALSE, FALSE),
             Brace(<<Lit(<<"d">>), EmptyText>>)>>),
      Text(<<Variable(<<"A">>, FALSE, SelAll), Brace(<<Lit(<<"1">>), Lit(<<"2">>)>>)>>),
      Text(<<Normal(<<"1">>, FALSE, FALSE),
             Brace(<<Text(<<Variable(<<"A">>, FALSE, SelAll)>>), Lit(<<"2">>)>>)>>),
      Text(<<Brace(<<Lit(<<"1", ".", ".", "3">>), Lit(<<"x">>)>>)>>),
      Text(<<Brace(<<Text(<<ArrayVariable(<<"M">>, FALSE, SelKey(<<"k", " ", "j">>))>>)>>)>>),
      Text(<<Arithmetic(<<"A", " ", "*", " ", "A", " ", "-", " ", "(", "A", " ", "+",
                          " ", "A", ")">>)>>),
      Text(<<Variable(<<"L">>, TRUE, SelIndex(Forward(1)))>>),
      Text(<<Process(<<"a", "\n", "\n">>, TRUE, SelAll)>>),
      Text(<<Process(<<"!">>, FALSE, SelAll)>>),
      Text(<<ArrayProcess(<<"a", " ", "b">>, FALSE,
                          SelRange(MkRange(Forward(0), Backward(0), TRUE)))>>),
      Text(<<ArrayVariable(<<"X">>, TRUE, SelAll)>>),
      Text(<<ArrayMethod(<<"m", " ", "n">>)>>),
      Text(<<Normal(<<"~">>, FALSE, TRUE), Whitespace(<<" ">>)>>),
      Text(<<Brace(<<Lit(<<"u">>), Lit(<<"b">>)>>), Normal(<<"*">>, TRUE, FALSE)>>),
      Text(<<Normal(<<"a">>, FALSE, FALSE),
             ArrayVariable(<<"M">>, TRUE, SelKey(<<"j", " ", "0", " ", "k">>))>>),
      Text(<<ArrayVariable(<<"M">>, FALSE, SelKey(<<"k", " ", " ", "j">>))>>),
      Text(<<Brace(<<Lit(<<"*">>), Lit(<<"a">>)>>)>>),
      Text(<<Variable(<<"D">>, FALSE, SelNone)>>),
      Text(<<Variable(<<"D">>, FALSE, SelIndex(Forward(5)))>>) }

InputTexts == CoreTexts \cup ArrayTexts \cup TestTexts

\* no expand_process call is being traced
ProcessIdle ==
    /\ command = None
    /\ quoted = FALSE
    /\ selection = SelNone
    /\ current = <<>>
    /\ bytes = <<>>
    /\ size = 0
    /\ i = 0
    /\ prev_is_whitespace = TRUE
    /\ ppc = "idle"

\* lines 201-203 / 259-261
InitExpand ==
    /\ entry \in {"expand_string", "expand_string_no_glob"}
    /\ original \in InputTexts
    /\ reverse_quoting \in BOOLEAN
    /\ debug_assertions \in BOOLEAN
    /\ word_iterator = Tokenize(original, entry = "expand_string")
    /\ token_buffer = <<>>
    /\ contains_brace = FALSE
    /\ idx = 0
    /\ output = <<>>
    /\ expanded_words = <<>>
    /\ tokens = <<>>
    /\ expanders = <<>>
    /\ result = <<>>
    /\ pc = "tokenize"
    /\ ProcessIdle
    /\ ArithIdle

\* expand_string: Some(word) (lines 207-243)
ExpandStringNext ==
    /\ pc = "tokenize" /\ entry = "expand_string" /\ word_iterator # <<>>
    /\ token_buffer' = PushWord(token_buffer, Head(word_iterator))
    /\ contains_brace' = (contains_brace \/ Head(word_iterator).kind = "Brace")
    /\ word_iterator' = Tail(word_iterator)
    /\ UNCHANGED <<pvars, avars, debug_assertions, entry, original, reverse_quoting, idx, output,
                   expanded_words, tokens, expanders, result, pc>>

\* expand_string_no_glob: Some(word) (lines 265-270)
ExpandStringNoGlobNext ==
    /\ pc = "tokenize" /\ entry = "expand_string_no_glob" /\ word_iterator # <<>>
    /\ token_buffer' = PushWordNoGlob(token_buffer, Head(word_iterator))
    /\ contains_brace' = (contains_brace \/ Head(word_iterator).kind = "Brace")
    /\ word_iterator' = Tail(word_iterator)
    /\ UNCHANGED <<pvars, avars, debug_assertions, entry, original, reverse_quoting, idx, output,
                   expanded_words, tokens, expanders, result, pc>>

\* None (lines 244-248 / 271-275), then the call of expand_tokens
IteratorEnd ==
    /\ pc = "tokenize" /\ word_iterator = <<>>
    /\ token_buffer' = TokenBuffer(original, token_buffer)
    /\ pc' = "dispatch"
    /\ UNCHANGED <<pvars, avars, debug_assertions, entry, original, reverse_quoting,
                   word_iterator, contains_brace, idx, output, expanded_words, tokens,
                   expanders, result>>

\* expand_tokens on an empty buffer (lines 685-687)
TokensEmpty ==
    /\ pc = "dispatch" /\ token_buffer = <<>>
    /\ result' = <<>>
    /\ pc' = "done"
    /\ UNCHANGED <<pvars, avars, debug_assertions, entry, original, reverse_quoting,
                   word_iterator, token_buffer, contains_brace, idx, output,
                   expanded_words, tokens, expanders>>

\* lines 588-589
TokensBraces ==
    /\ pc = "dispatch" /\ token_buffer # <<>> /\ contains_brace
    /\ pc' = "braces"
    /\ UNCHANGED <<pvars, avars, debug_assertions, entry, original, reverse_quoting,
                   word_iterator, token_buffer, contains_brace, idx, output,
                   expanded_words, tokens, expanders, result>>

\* the array an expansion returns, or the unwinding of a panic
Return(r) ==
    /\ result' = r.arr
    /\ pc' = IF r.panic THEN "panic" ELSE "done"

\* lines 590-596: the single-token paths
TokensSingle ==
    /\ pc = "dispatch" /\ Len(token_buffer) = 1 /\ ~contains_brace
    /\ Return(Dispatch(token_buffer, reverse_quoting, FALSE,
                        <<Nested(token_buffer[1], reverse_quoting)>>))
    /\ UNCHANGED <<pvars, avars, debug_assertions, entry, original, reverse_quoting,
                   word_iterator, token_buffer, contains_brace, idx, output,
                   expanded_words, tokens, expanders>>

\* lines 598-599
TokensFold ==
    /\ pc = "dispatch" /\ Len(token_buffer) > 1 /\ ~contains_brace
    /\ pc' = "fold"
    /\ UNCHANGED <<pvars, avars, debug_assertions, entry, original, reverse_quoting,
                   word_iterator, token_buffer, contains_brace, idx, output,
                   expanded_words, tokens, expanders, result>>

WalkLocals == [output |-> output, expanded_words |-> expanded_words, panic |-> FALSE]

SetWalk(st) ==
    /\ output' = st.output
    /\ expanded_words' = st.expanded_words
    /\ pc' = IF st.panic THEN "panic" ELSE "fold"

\* one iteration of the fold (lines 601-679)
FoldToken ==
    /\ pc = "fold" /\ idx < Len(token_buffer)
    /\ SetWalk(TokenStep(WalkLocals, token_buffer[idx + 1], reverse_quoting,
                          Nested(token_buffer[idx + 1], reverse_quoting)))
    /\ idx' = idx + 1
    /\ UNCHANGED <<pvars, avars, debug_assertions, entry, original, reverse_quoting,
                   word_iterator, token_buffer, contains_brace, tokens, expanders,
                   result>>

\* lines 680-684
FoldFinish ==
    /\ pc = "fold" /\ idx = Len(token_buffer)
    /\ result' = FinishWalk(WalkLocals).arr
    /\ pc' = "done"
    /\ UNCHANGED <<pvars, avars, debug_assertions, entry, original, reverse_quoting,
                   word_iterator, token_buffer, contains_brace, idx, output,
                   expanded_words, tokens, expanders>>

BraceLocals ==
    [output |-> output, expanded_words |-> expanded_words, tokens |-> tokens,
     expanders |-> expanders, panic |-> FALSE]

SetBraceLocals(bst) ==
    /\ output' = bst.output
    /\ expanded_words' = bst.expanded_words
    /\ tokens' = bst.tokens
    /\ expanders' = bst.expanders
    /\ pc' = IF bst.panic THEN "panic" ELSE "braces"

\* one iteration of the brace walk (lines 291-374)
BraceToken ==
    /\ pc = "braces" /\ idx < Len(token_buffer)
    /\ SetBraceLocals(BraceStep(BraceLocals, token_buffer[idx + 1], reverse_quoting,
                                 Nested(token_buffer[idx + 1], reverse_quoting)))
    /\ idx' = idx + 1
    /\ UNCHANGED <<pvars, avars, debug_assertions, entry, original, reverse_quoting,
                   word_iterator, token_buffer, contains_brace, result>>

\* lines 375-389: the generator's words join expanded_words
BracesGenerate ==
    /\ pc = "braces" /\ idx = Len(token_buffer)
    /\ expanded_words' = GeneratedWords(BraceLocals)
    /\ idx' = 0
    /\ pc' = "glob"
    /\ UNCHANGED <<pvars, avars, debug_assertions, entry, original, reverse_quoting,
                   word_iterator, token_buffer, contains_brace, output, tokens,
                   expanders, result>>

\* one step of the fold over expanded_words (lines 393-418)
GlobNext ==
    /\ pc = "glob" /\ idx < Len(expanded_words)
    /\ result' = result \o GlobWord(expanded_words[idx + 1])
    /\ idx' = idx + 1
    /\ UNCHANGED <<pvars, avars, debug_assertions, entry, original, reverse_quoting,
                   word_iterator, token_buffer, contains_brace, output, expanded_words,
                   tokens, expanders, pc>>

\* line 419: the accumulator is returned
GlobFinish ==
    /\ pc = "glob" /\ idx = Len(expanded_words)
    /\ pc' = "done"
    /\ UNCHANGED <<pvars, avars, debug_assertions, entry, original, reverse_quoting,
                   word_iterator, token_buffer, contains_brace, idx, output,
                   expanded_words, tokens, expanders, result>>

NextExpand ==
    \/ ExpandStringNext
    \/ ExpandStringNoGlobNext
    \/ IteratorEnd
    \/ TokensEmpty
    \/ TokensBraces
    \/ TokensSingle
    \/ TokensFold
    \/ FoldToken
    \/ FoldFinish
    \/ BraceToken
    \/ BracesGenerate
    \/ GlobNext
    \/ GlobFinish

Spec == InitExpand /\ [][NextExpand]_vars

\* =========================================== expand_arithmetic, step by step
\* A, B and L are set (B holds the name A, L holds a line break); every other
\* name is not.
ArithChars == {"A", "B", "L", "1", "_", "+", " ", "U+00E9"}

\* the expression of test::arith_expression (line 886)
ArithTest ==
    <<"A", " ", "*", " ", "A", " ", "-", " ", "(", "A", " ", "+", " ", "A", ")">>

ArithInputs == SeqsUpTo(ArithChars, MaxArith) \cup {ArithTest}

ScanLocals == [varbuf |-> varbuf, intermediate |-> intermediate, lookups |-> lookups]

SetScan(st) ==
    /\ varbuf' = st.varbuf
    /\ intermediate' = st.intermediate
    /\ lookups' = st.lookups

InitArith ==
    /\ input \in ArithInputs
    /\ scanned = 0
    /\ varbuf = <<>>
    /\ intermediate = <<>>
    /\ lookups = <<>>
    /\ apc = "scan"
    /\ debug_assertions = FALSE
    /\ ProcessIdle
    /\ ExpansionIdle

\* lines 712-714: a byte of an identifier
ScanIdentifier ==
    /\ apc = "scan" /\ scanned < Len(Bytes(input))
    /\ IsIdentByte(Bytes(input)[scanned + 1])
    /\ SetScan(ScanByte(ScanLocals, Bytes(input)[scanned + 1]))
    /\ scanned' = scanned + 1
    /\ UNCHANGED <<pvars, debug_assertions, evars, input, apc>>

\* lines 715-718: any other byte
ScanOther ==
    /\ apc = "scan" /\ scanned < Len(Bytes(input))
    /\ ~IsIdentByte(Bytes(input)[scanned + 1])
    /\ SetScan(ScanByte(ScanLocals, Bytes(input)[scanned + 1]))
    /\ scanned' = scanned + 1
    /\ UNCHANGED <<pvars, debug_assertions, evars, input, apc>>

\* line 721: the flush after the loop
ScanFinish ==
    /\ apc = "scan" /\ scanned = Len(Bytes(input))
    /\ SetScan(Flush(ScanLocals))
    /\ apc' = "eval"
    /\ UNCHANGED <<pvars, debug_assertions, evars, input, scanned>>

\* lines 722-728
Evaluate ==
    /\ apc = "eval"
    /\ output' = EvalAppend(output, intermediate)
    /\ apc' = "done"
    /\ UNCHANGED <<pvars, debug_assertions, entry, original, reverse_quoting,
                   word_iterator, token_buffer, contains_brace, idx, expanded_words,
                   tokens, expanders, result, pc, input, scanned, varbuf, intermediate,
                   lookups>>

NextArith ==
    \/ ScanIdentifier
    \/ ScanOther
    \/ ScanFinish
    \/ Evaluate

SpecArith == InitArith /\ [][NextArith]_vars

\* ------------------------------------------------------------------ claims
\* C1: for every non-empty raw output, unquoted expand_process with Select::All
\* appends the reference normalisation: whitespace runs become one space, leading
\* and trailing whitespace go, every other character is kept in order.
C1_UnquotedAppendsNormalized ==
    (ppc = "done" /\ command # None /\ command[1] # <<>> /\ ~quoted
        /\ selection.kind = "All")
    => current = Normalized(command[1])

\* C2: for every non-empty raw output, quoted expand_process with Select::All
\* appends the output without its trailing run of newlines, also when the output
\* is newlines only (then nothing is appended).
C2_QuotedStripsTrailingNewlines ==
    (ppc = "done" /\ command # None /\ command[1] # <<>> /\ quoted
        /\ selection.kind = "All")
    => current = StripTrailingNewlines(command[1])

\* ---- C3
\* the text has no '*' character, at any depth
RECURSIVE NoStar(_)
NoStar(text0) ==
    \A k \in 1..Len(text0.toks) :
        /\ ~Contains(text0.toks[k].text, "*")
        /\ \A j \in 1..Len(text0.toks[k].nodes) : NoStar(text0.toks[k].nodes[j])

\* every way of taking one string from each list, the leftmost list varying
\* slowest, each list in its own order
RECURSIVE Combinations(_)
Combinations(lists) ==
    IF lists = <<>> THEN << <<>> >>
    ELSE Concat([k \in 1..Len(Head(lists)) |->
                    [j \in 1..Len(Combinations(Tail(lists))) |->
                        Head(lists)[k] \o Combinations(Tail(lists))[j]]])

\* what a token stands for in the word: a brace group is its candidates (the
\* expansions of its alternatives flattened in order, a range alternative
\* replaced by its members), a group without candidates is the text "{}", any
\* other token is the one text it contributes
SlotOf(tok, rq, subs) ==
    IF tok.kind = "Brace"
    THEN IF RangesExpanded(Concat([k \in 1..Len(subs) |-> subs[k].arr])) = <<>>
         THEN << <<"{", "}">> >>
         ELSE RangesExpanded(Concat([k \in 1..Len(subs) |-> subs[k].arr]))
    ELSE <<TokenStep(WalkStart, IF tok.kind = "Normal" THEN [tok EXCEPT !.flag = FALSE]
                                ELSE tok, rq, subs).output>>

Slots(buffer, rq) ==
    [k \in 1..Len(buffer) |-> SlotOf(buffer[k], rq, Nested(buffer[k], rq))]

\* C3: a word with brace groups and no '*' expands, on the brace path, to one
\* string per combination of candidates: the fixed segments interleaved with
\* one candidate per placeholder, the leftmost placeholder most significant,
\* candidates in source order, nested alternatives flattened in order.
C3_BraceProduct ==
    (pc = "done" /\ contains_brace /\ NoStar(original))
        => result = Combinations(Slots(token_buffer, reverse_quoting))

\* the nested word of the tests: six strings from a nested and a flat group
C3_Witness ==
    /\ pc = "done" /\ contains_brace /\ NoStar(original)
    /\ Len(expanders) = 2 /\ Len(expanders[1]) = 3 /\ Len(expanders[2]) = 2
    /\ Len(result) = 6
    /\ result[2] = <<"I", "t", "e", "m", "i", "z", "e">>
    /\ result[3] = <<"I", "t", "a", "l", "i", "c", "i", "z", "e", "d">>

\* ---- C4
\* F: the expansions of the alternatives, flattened in source order
Flattening(subs) == Concat([k \in 1..Len(subs) |-> subs[k].arr])

AllReturn(subs) == \A k \in 1..Len(subs) : ~subs[k].panic

\* the selection the selector names, on a sequence F
RefRange(F, b) == IF b = None THEN <<>> ELSE SubSeq(F, b[1][1] + 1, b[1][1] + b[1][2])

RefSelect(F, sel) ==
    CASE sel.kind = "None" -> <<>>
      [] sel.kind = "All" -> F
      [] sel.kind = "Index" /\ sel.index.dir = "Forward" ->
            IF sel.index.n < Len(F) THEN <<F[sel.index.n + 1]>> ELSE <<>>
      [] sel.kind = "Index" /\ sel.index.dir = "Backward" ->
            IF sel.index.n < Len(F) THEN <<F[Len(F) - sel.index.n]>> ELSE <<>>
      [] sel.kind = "Range" -> RefRange(F, RangeBounds(sel.range, Len(F)))
      [] sel.kind = "Key" -> <<>>

ArrayReturned(tok, subs) ==
    AllReturn(subs) => (pc = "done" /\ result = RefSelect(Flattening(subs), tok.sel))

\* C4: for an array literal whose alternatives all expand, array_expand returns
\* the reference selection of the flattening F for every selector, and an
\* out-of-range selection is the empty array, never a failure.
C4_ArraySelection ==
    (pc \in {"done", "panic"} /\ Len(token_buffer) = 1 /\ token_buffer[1].kind = "Array")
        => ArrayReturned(token_buffer[1], Nested(token_buffer[1], reverse_quoting))

\* a range taken from the flattening of nested arrays and variables
C4_Witness ==
    /\ pc = "done" /\ Len(token_buffer) = 1 /\ token_buffer[1].kind = "Array"
    /\ Len(token_buffer[1].nodes) = 4
    /\ token_buffer[1].sel.kind = "Range"
    /\ token_buffer[1].sel.range.start = Backward(2)
    /\ result = << <<"g">>, <<"1", " ", "2", " ", "3">> >>

\* ---- C5
\* C5: on both entry points the empty text becomes the one token
\* Normal("", true, false), the expansion returns, and what it returns is the
\* one-element array [""], never the empty array.
C5_EmptyText ==
    original.empty =>
        /\ pc # "panic"
        /\ pc \in {"dispatch", "done"} => token_buffer = <<Normal(<<>>, TRUE, FALSE)>>
        /\ pc = "done" => result = << <<>> >>

C5_Witness ==
    /\ pc = "done" /\ original.empty /\ entry = "expand_string_no_glob"
    /\ token_buffer = <<Normal(<<>>, TRUE, FALSE)>>
    /\ result = << <<>> >>

\* ---- C6
NoGlobLiteral(buffer) ==
    \A k \in 1..Len(buffer) : ~(buffer[k].kind = "Normal" /\ buffer[k].flag)

\* a string variable gives its value, whole for Select::All, or nothing when
\* it is not set; an array variable gives its elements joined by one space
ValueOf(v, sel) ==
    IF v = None THEN <<>>
    ELSE IF sel.kind = "All" THEN v[1]
    ELSE slice(<<>>, v[1], sel)

JoinedOf(a) == IF a = None THEN <<>> ELSE Join(a[1], <<" ">>)

\* the text one token contributes, whatever the buffer holds before it
Contribution(tok, rq, subs) ==
    CASE tok.kind = "Variable" -> ValueOf(ExpString(tok.text, Quoting(tok, rq)), tok.sel)
      [] tok.kind = "ArrayVariable" -> JoinedOf(ExpArray(tok.text, tok.sel))
      [] tok.kind = "Whitespace" -> tok.text
      [] OTHER -> TokenStep(WalkStart, tok, rq, subs).output

Contributions(buffer, rq) ==
    [k \in 1..Len(buffer) |-> Contribution(buffer[k], rq, Nested(buffer[k], rq))]

AtMostOne(text) == IF text = <<>> THEN <<>> ELSE <<text>>

\* C6: a brace-free word of two or more tokens without a glob-flagged literal
\* expands to at most one element, the concatenation of the tokens'
\* contributions from left to right, and to the empty array exactly when that
\* concatenation is empty.
C6_FoldConcatenation ==
    (pc = "done" /\ ~contains_brace /\ Len(token_buffer) >= 2
        /\ NoGlobLiteral(token_buffer))
        => result = AtMostOne(Concat(Contributions(token_buffer, reverse_quoting)))

\* a variable that is not set before one whose value holds spaces
C6_Witness ==
    /\ pc = "done" /\ ~contains_brace /\ Len(token_buffer) = 2
    /\ token_buffer[1].kind = "Variable" /\ token_buffer[1].text = <<"U">>
    /\ token_buffer[2].kind = "Variable" /\ token_buffer[2].text = <<"D">>
    /\ result = << <<"1", " ", "2", " ", "3">> >>

\* ---- C7
\* what calc::eval answers for the expression of an Arithmetic token, after
\* the substitution of its variables
Evaluation(tok) == CalcEval(Flush(ScanBytes(ScanStart, Bytes(tok.text))).intermediate)

FailingArithmetic(tok) == tok.kind = "Arithmetic" /\ ~Evaluation(tok).ok

\* the step of a walk over a failing Arithmetic token
AppendsErrorText(tok) ==
    /\ output' = output \o Evaluation(tok).text
    /\ expanded_words' = expanded_words
    /\ pc' = pc
    /\ idx' = idx + 1

FailingStep ==
    (pc \in {"fold", "braces"} /\ idx < Len(token_buffer)
        /\ FailingArithmetic(token_buffer[idx + 1]))
        => AppendsErrorText(token_buffer[idx + 1])

FailingWord ==
    (pc \in {"done", "panic"} /\ Len(token_buffer) = 1
        /\ FailingArithmetic(token_buffer[1]))
        => (pc = "done" /\ result = <<Evaluation(token_buffer[1]).text>>)

\* C7: when calc::eval fails, the walk's step over the Arithmetic token appends
\* exactly the error's text to the buffer, keeps what the buffer held, and stays
\* in the walk at the next token; a word that is one failing Arithmetic token
\* expands to the one-element array holding the error text.
C7_ArithmeticErrorText == [][FailingStep]_vars /\ []FailingWord

\* the walk went on after the error: the value of D follows the error text
C7_Witness ==
    /\ pc = "done" /\ Len(token_buffer) = 2
    /\ FailingArithmetic(token_buffer[1])
    /\ token_buffer[2].kind = "Variable" /\ token_buffer[2].text = <<"D">>
    /\ result = << <<"d", "i", "v", "0", "1", " ", "2", " ", "3">> >>

\* ---- C8
\* the glob collaborator gave no match for the pattern: an error, or no entry
\* that is a path
NoMatch(g) == ~g.ok \/ SelectSeq(g.paths, LAMBDA e : e.ok) = <<>>

\* a step of the glob pass over a generated string that holds '*' and for
\* which the collaborator has no match
Unmatched(word) ==
    /\ pc = "glob" /\ idx < Len(expanded_words) /\ idx' = idx + 1
    /\ Contains(word, "*") /\ NoMatch(Glob(word))

KeepsText == Unmatched(expanded_words[idx + 1])
                => result' = Append(result, expanded_words[idx + 1])

\* C8 (the brace-combination strings): a generated string that is globbed
\* contributes exactly itself, unchanged and once, whenever the glob
\* collaborator returns an error or yields no match.
C8_UnmatchedKeepsText == [][KeepsText]_vars

\* ---- C9
\* the end of the maximal run of ASCII letters, digits and underscore at p
RECURSIVE RunEnd(_, _)
RunEnd(s, p) == IF p <= Len(s) /\ IsIdentByte(s[p]) THEN RunEnd(s, p + 1) ELSE p

Replaced(name, res) == IF res # None THEN res[1] ELSE name

Before(text, looked, rest) ==
    [intermediate |-> text \o rest.intermediate, lookups |-> looked \o rest.lookups]

\* the expression and the lookups the claim describes, over the characters of
\* the input from p on
RECURSIVE Described(_, _)
DescribedRun(s, name, e) ==
    Before(Replaced(name, ExpString(name, FALSE)), <<<<name, FALSE>>>>, Described(s, e))

Described(s, p) ==
    IF p > Len(s) THEN [intermediate |-> <<>>, lookups |-> <<>>]
    ELSE IF IsIdentByte(s[p])
         THEN DescribedRun(s, SubSeq(s, p, RunEnd(s, p) - 1), RunEnd(s, p))
         ELSE Before(<<s[p]>>, <<>>, Described(s, p + 1))

\* C9: the expression handed to the evaluator is the input with every maximal
\* run of ASCII letters, digits and underscore looked up once, unquoted, and
\* replaced by its value when it has one, every other character copied
\* unchanged in place and no substituted value scanned again; with A = 1 the
\* expression of test::arith_expression evaluates to -1.
C9_SubstitutesRuns ==
    /\ (apc \in {"eval", "done"}
           => [intermediate |-> intermediate, lookups |-> lookups] = Described(input, 1))
    /\ (apc = "done" /\ input = ArithTest => output = <<"-", "1">>)

\* ---- C10
\* the position of the j-th space of key; 0 before the first key and one past
\* the end after the last
SpaceAt(key, j) ==
    IF j = 0 THEN 0
    ELSE IF j > Cardinality({p \in 1..Len(key) : key[p] = " "}) THEN Len(key) + 1
    ELSE CHOOSE p \in 1..Len(key) :
            key[p] = " " /\ Cardinality({q \in 1..p : key[q] = " "}) = j

KeyCount(key) == Cardinality({p \in 1..Len(key) : key[p] = " "}) + 1

\* the j-th of the space-separated keys
KeyAt(key, j) == SubSeq(key, SpaceAt(key, j - 1) + 1, SpaceAt(key, j) - 1)

\* the selector a single key stands for: a number is an index, no text is no
\* selector
KeySelect(key) ==
    IF key = <<>> THEN SelNone
    ELSE IF \A p \in 1..Len(key) : IsDigit(key[p]) THEN SelIndex(Forward(TextToNat(key)))
    ELSE SelKey(key)

MultiKey(word) ==
    word.kind = "ArrayVariable" /\ word.sel.kind = "Key"
        /\ \E p \in 1..Len(word.sel.key) : word.sel.key[p] = " "

\* k ArrayVariable tokens alternating with k-1 Whitespace(" ") tokens
Rewritten(word, k) ==
    [n \in 1..(2 * k - 1) |->
        IF n % 2 = 1
        THEN ArrayVariable(word.text, word.flag, KeySelect(KeyAt(word.sel.key, (n + 1) \div 2)))
        ELSE Whitespace(<<" ">>)]

Pushed(word) ==
    IF MultiKey(word) THEN Rewritten(word, KeyCount(word.sel.key)) ELSE <<word>>

RewriteStep ==
    (pc = "tokenize" /\ entry = "expand_string" /\ word_iterator # <<>>
        /\ word_iterator' = Tail(word_iterator))
        => token_buffer' = token_buffer \o Pushed(Head(word_iterator))

\* C10: in expand_string an ArrayVariable whose Key selector holds k >= 2
\* space-separated keys is pushed as k ArrayVariable tokens of the same name
\* and quoted flag, one per key in key order, alternating with k-1
\* Whitespace(" ") tokens and with no whitespace token after the last; every
\* other token is pushed unchanged.
C10_MultiKeyRewrite == [][RewriteStep]_vars

\* three keys after a literal: five tokens follow the literal
C10_Witness ==
    /\ entry = "expand_string" /\ pc = "tokenize" /\ word_iterator = <<>>
    /\ Len(original.toks) = 2 /\ MultiKey(original.toks[2])
    /\ KeyCount(original.toks[2].sel.key) = 3
    /\ token_buffer =
          << Normal(<<"a">>, FALSE, FALSE),
             ArrayVariable(<<"M">>, TRUE, SelKey(<<"j">>)),
             Whitespace(<<" ">>),
             ArrayVariable(<<"M">>, TRUE, SelIndex(Forward(0))),
             Whitespace(<<" ">>),
             ArrayVariable(<<"M">>, TRUE, SelKey(<<"k">>)) >>

\* ---- C11
\* no alternative of the group produced a value
NoCandidate(subs) == \A k \in 1..Len(subs) : ~subs[k].panic /\ subs[k].arr = <<>>

EmptyGroup(tok, subs) == tok.kind = "Brace" /\ NoCandidate(subs)

AppendsBraces ==
    /\ output' = output \o <<"{", "}">>
    /\ tokens' = tokens
    /\ expanders' = expanders
    /\ expanded_words' = expanded_words
    /\ idx' = idx + 1
    /\ pc' = "braces"

EmptyGroupStep ==
    (pc = "braces" /\ idx < Len(token_buffer)
        /\ EmptyGroup(token_buffer[idx + 1], Nested(token_buffer[idx + 1], reverse_quoting)))
        => AppendsBraces

\* C11: when no alternative of a Brace token produces a value, the step of the
\* brace walk appends the text "{}" to the rolling buffer, leaves the layout
\* and the stored candidate lists as they were, and the walk goes on.
C11_EmptyGroupFallback == [][EmptyGroupStep]_vars

\* a group with candidates was recorded before the group without any
C11_Witness ==
    /\ pc = "braces" /\ idx = 2 /\ Len(token_buffer) = 2
    /\ EmptyGroup(token_buffer[2], Nested(token_buffer[2], reverse_quoting))
    /\ tokens = <<BExpander>> /\ Len(expanders) = 1
    /\ output = <<"{", "}">>

\* ---- C12
WhitespaceOnly(s) == \A k \in 1..Len(s) : IsWhitespace(s[k])

\* the compaction loop's counters stay inside the output
InsideOutput ==
    ppc \in {"loop", "tail"} => (0 <= i /\ i <= size /\ size <= Len(command[1]))

\* the length the buffer is sliced with
SliceLength == ppc = "slice" => (0 <= size /\ size <= Len(bytes))

BlankGivesNothing ==
    (ppc = "done" /\ command # None /\ ~quoted /\ WhitespaceOnly(command[1]))
        => current = <<>>

\* C12: for every non-empty raw output, whitespace-only ones included, the
\* unquoted expand_process completes: no step fails, in the compaction loop
\* 0 <= i <= size <= the output's length, the slice length is between 0 and
\* the buffer's length, and a whitespace-only output appends nothing.
C12_UnquotedCompletes ==
    /\ ppc # "panic"
    /\ InsideOutput
    /\ SliceLength
    /\ BlankGivesNothing

\* ---- C13
\* all of what a walk produced, read from the first element to the last
ReadOff(st) == Concat(st.expanded_words) \o st.output

\* what each token of the buffer produces when it is walked alone
Produced(buffer, rq) ==
    [k \in 1..Len(buffer) |->
        ReadOff(TokenStep(WalkStart, buffer[k], rq, Nested(buffer[k], rq)))]

\* C13: the result of a brace-free word of two or more tokens, read from its
\* first element to its last, is what the tokens produce in token order: no
\* token's output stands after the output of a later token, glob matches
\* included.
C13_TokenOrder ==
    (pc = "done" /\ ~contains_brace /\ Len(token_buffer) >= 2)
        => Concat(result) = Concat(Produced(token_buffer, reverse_quoting))

\* ---- C14
Placeholders(layout) ==
    Cardinality({k \in 1..Len(layout) : layout[k].kind = "Expander"})

\* one candidate list per placeholder, none of them empty; no empty fixed
\* segment and no two fixed segments in a row
WellFormed(layout, lists) ==
    /\ Placeholders(layout) = Len(lists)
    /\ \A k \in 1..Len(lists) : lists[k] # <<>>
    /\ \A k \in 1..Len(layout) : layout[k].kind = "Normal" => layout[k].text # <<>>
    /\ \A k \in 1..(Len(layout) - 1) :
          ~(layout[k].kind = "Normal" /\ layout[k + 1].kind = "Normal")

\* the layout handed to the generator (lines 378-386)
Handed == IF output # <<>> THEN Append(tokens, BNormal(output)) ELSE tokens

\* C14: throughout the brace walk the layout holds as many placeholders as
\* there are stored candidate lists, every stored list and every fixed segment
\* is non-empty and no two fixed segments are neighbours; the generator is
\* handed such a layout, and the brace path never returns the empty array.
C14_LayoutWellFormed ==
    /\ pc \in {"braces", "glob"} => WellFormed(tokens, expanders)
    /\ (pc = "braces" /\ idx = Len(token_buffer) /\ expanders # <<>>)
          => WellFormed(Handed, expanders)
    /\ (pc = "done" /\ contains_brace) => result # <<>>

\* two groups with fixed text before each of them, six strings returned
C14_Witness ==
    /\ pc = "done" /\ contains_brace
    /\ Len(tokens) = 4 /\ tokens[1].kind = "Normal" /\ tokens[3].kind = "Normal"
    /\ Len(expanders) = 2
    /\ Len(result) = 6

\* ---- C15
\* the path texts of the successful matches, in enumeration order
Matches(g) ==
    [k \in 1..Len(SelectSeq(g.paths, LAMBDA e : e.ok)) |->
        SelectSeq(g.paths, LAMBDA e : e.ok)[k].path]

\* the generated string may pass unchanged
Passes(word, g) == ~Contains(word, "*") \/ ~g.ok \/ Matches(g) = <<>>

\* the elements one generated string may add to the result
Emitted(added, word, g) ==
    /\ \A n \in 1..Len(added) :
          \/ (Passes(word, g) /\ added[n] = word)
          \/ (~Passes(word, g) /\ \E k \in 1..Len(Matches(g)) : added[n] = Matches(g)[k])
    /\ ~Passes(word, g) => added = Matches(g)

GlobStep ==
    (pc = "glob" /\ idx < Len(expanded_words) /\ idx' = idx + 1)
        => /\ Len(result') >= Len(result)
           /\ SubSeq(result', 1, Len(result)) = result
           /\ Emitted(SubSeq(result', Len(result) + 1, Len(result')),
                      expanded_words[idx + 1], Glob(expanded_words[idx + 1]))

\* C15: every element the glob pass of the brace path adds is either the
\* generated string itself (it has no '*', or the glob collaborator failed or
\* matched nothing) or the path of one successful match, the matches in
\* enumeration order; an entry reported as an error adds no element.
C15_GlobPassElements == [][GlobStep]_vars

\* ---- C16
StringKinds == {"StringMethod", "Normal", "Whitespace", "Process", "Variable", "Arithmetic"}

GlobLiteral(tok) == tok.kind = "Normal" /\ tok.flag

\* expand_single_string_token has returned for the one token of the buffer
SingleReturned ==
    /\ pc = "done" /\ ~contains_brace /\ Len(token_buffer) = 1
    /\ token_buffer[1].kind \in StringKinds

\* a token other than a glob-flagged literal: one element holding the text it
\* resolved to, or no element when it resolved to nothing
OneOrNone(tok, text) ==
    /\ Len(result) <= 1
    /\ Len(result) = 1 <=> text # <<>>
    /\ Len(result) = 1 => result[1] = text

\* a glob-flagged literal: at least one element, several only for several matches
LiteralElements(text) ==
    /\ Len(result) >= 1
    /\ Len(result) > 1 => result = Matches(Glob(text))

SingleElements(tok) ==
    IF GlobLiteral(tok)
    THEN LiteralElements(IF tok.tilde THEN TildeText(tok.text, ExpTilde(tok.text))
                         ELSE tok.text)
    ELSE OneOrNone(tok, Contribution(tok, reverse_quoting, <<>>))

\* C16: expand_single_string_token returns exactly one element when the token
\* resolved to some text and no element only when it resolved to nothing (the
\* buffer is empty); only a glob-flagged literal with several matches gives
\* more than one element.
C16_SingleTokenElements == SingleReturned => SingleElements(token_buffer[1])

\* a variable that is not set: the empty array
C16_Witness ==
    /\ SingleReturned
    /\ token_buffer[1].kind = "Variable" /\ token_buffer[1].text = <<"U">>
    /\ result = <<>>

\* ---- C17
\* a step of the loop of either entry point
EntryStep ==
    (pc = "tokenize" /\ entry \in {"expand_string", "expand_string_no_glob"}
        /\ word_iterator # <<>> /\ word_iterator' = Tail(word_iterator))
        => token_buffer' = token_buffer \o Pushed(Head(word_iterator))

\* the word {@M[k j]} and the word {@M[k] @M[j]}
GroupOf(toks) == Text(<<Brace(<<Text(toks)>>)>>)

MultiKeyGroup == GroupOf(<<ArrayVariable(<<"M">>, FALSE, SelKey(<<"k", " ", "j">>))>>)

SingleKeysGroup ==
    GroupOf(<<ArrayVariable(<<"M">>, FALSE, SelKey(<<"k">>)), Whitespace(<<" ">>),
              ArrayVariable(<<"M">>, FALSE, SelKey(<<"j">>))>>)

SameAsSingleKeys ==
    (pc = "done" /\ entry = "expand_string" /\ original = MultiKeyGroup)
        => Ok(result) = ExpandString(SingleKeysGroup, reverse_quoting)

\* C17: both entry points rewrite a multi-key ArrayVariable before dispatch, so
\* a multi-key lookup inside a brace alternative expands to the values of the
\* single-key lookups written with spaces between them.
C17_RewriteOnEveryEntry == [][EntryStep]_vars /\ []SameAsSingleKeys
====
